---- MODULE Spec2Model ----
(***************************************************************************)
(* Fixed-point bonding curve of the flipcash program: the PreciseNumber    *)
(* arithmetic (api/src/math/unsigned.rs), DiscreteExponentialCurve and     *)
(* ContinuousExponentialCurve (api/src/curve.rs), and the instructions     *)
(* that trade against a pool (program/src/instruction: buy, sell, burn).   *)
(* pool holds the token accounts and the pool account, before what they    *)
(* held when the last instruction started.                                 *)
(*                                                                         *)
(* TLC's integers are 32 bits wide, so every number width of the program   *)
(* is scaled down and the relations between the widths are kept:           *)
(*   usize 64 bits -> 7, u128 -> 16, InnerUint (192 bits) -> 23,           *)
(*   ONE = 10^18 (just under 2^64) -> 100 (just under 2^7),                *)
(*   STEP_SIZE * ONE > 2^usize, 2^usize * STEP_SIZE * ONE^2 < 2^InnerUint, *)
(*   (2^InnerUint - 1) % ONE < ONE / 2, PRICE[0] = ONE / 100.              *)
(* An Option is a tuple: None is <<>>, Some(v) is <<v>>; a panic of the    *)
(* program (an unwrap of None, an index out of range, a failed cast) is    *)
(* the value Panic.                                                        *)
(***************************************************************************)
EXTENDS Integers, Sequences, FiniteSets, TLC

VARIABLES tbl, op, args, out, locals, low, high, pool, before

vars == <<tbl, op, args, out, locals, low, high, pool, before>>

---------------------------------------------------------------------------
(* Number widths (scaled) and the fixed-point unit *)

ONE == 100

USIZE_BITS == 7

U128_BITS == 16

INNER_UINT_BITS == 23

USIZE_MOD == 2 ^ USIZE_BITS

U128_MAX == 2 ^ U128_BITS - 1

INNER_UINT_MAX == 2 ^ INNER_UINT_BITS - 1

---------------------------------------------------------------------------
(* Option values and the ? operator *)

None == <<>>

Some(v) == <<v>>

Panic == <<0, 0>>

IsSome(o) == Len(o) = 1

\* `o?` followed by the rest of the function: None and a panic end the call
Try(o, F(_)) == IF IsSome(o) THEN F(o[1]) ELSE o

\* `o.unwrap()` followed by the rest of the function
Unwrap(o, F(_)) == IF IsSome(o) THEN F(o[1]) ELSE Panic

---------------------------------------------------------------------------
(* InnerUint: the checked operations of the 192-bit unsigned integer *)

InnerUint_checked_add(a, b) == IF a + b > INNER_UINT_MAX THEN None ELSE Some(a + b)

InnerUint_checked_sub(a, b) == IF a < b THEN None ELSE Some(a - b)

InnerUint_checked_mul(a, b) ==
    IF a = 0 \/ b = 0 THEN Some(0)
    ELSE IF a > INNER_UINT_MAX \div b THEN None
    ELSE Some(a * b)

InnerUint_checked_div(a, b) == IF b = 0 THEN None ELSE Some(a \div b)

\* panics when the number does not fit in a u128
as_u128(a) == IF a > U128_MAX THEN Panic ELSE Some(a)

\* `x as usize` keeps the low bits
as_usize(n) == n % USIZE_MOD

---------------------------------------------------------------------------
(* PreciseNumber (UnsignedNumeric): a number is its raw value *)

rounding_correction == ONE \div 2

new(value) == InnerUint_checked_mul(value, ONE)

to_imprecise(a) ==
    Try(InnerUint_checked_add(a, rounding_correction), LAMBDA v :
    Try(InnerUint_checked_div(v, ONE), LAMBDA q :
    as_u128(q)))

\* the step index rounded up instead of down
floor_as_ceiling(a) ==
    Try(InnerUint_checked_add(a, ONE - 1), LAMBDA v :
    Try(InnerUint_checked_div(v, ONE), LAMBDA q :
    InnerUint_checked_mul(q, ONE)))

floor(a) ==
    Try(InnerUint_checked_div(a, ONE), LAMBDA q :
    InnerUint_checked_mul(q, ONE))

\* no fallback when the scaled numerator overflows
checked_div_without_fallback(a, b) ==
    IF b = 0 THEN None
    ELSE Try(InnerUint_checked_mul(a, ONE), LAMBDA n :
         Try(InnerUint_checked_add(n, rounding_correction), LAMBDA v :
         InnerUint_checked_div(v, b)))

checked_div(a, b) ==
    IF b = 0 THEN None
    ELSE IF IsSome(InnerUint_checked_mul(a, ONE))
    THEN Try(InnerUint_checked_add(a * ONE, rounding_correction), LAMBDA v :
         InnerUint_checked_div(v, b))
    ELSE Try(InnerUint_checked_add(a, rounding_correction), LAMBDA v :
         Try(InnerUint_checked_div(v, b), LAMBDA q :
         InnerUint_checked_mul(q, ONE)))

\* the fallback with the smaller factor divided by ONE
checked_mul_dividing_smaller(a, b) ==
    IF IsSome(InnerUint_checked_mul(a, b))
    THEN Try(InnerUint_checked_add(a * b, rounding_correction), LAMBDA v :
         InnerUint_checked_div(v, ONE))
    ELSE IF a >= b
         THEN Try(InnerUint_checked_div(b, ONE), LAMBDA q : InnerUint_checked_mul(q, a))
         ELSE Try(InnerUint_checked_div(a, ONE), LAMBDA q : InnerUint_checked_mul(q, b))

checked_mul(a, b) ==
    IF IsSome(InnerUint_checked_mul(a, b))
    THEN Try(InnerUint_checked_add(a * b, rounding_correction), LAMBDA v :
         InnerUint_checked_div(v, ONE))
    ELSE IF a >= b
         THEN Try(InnerUint_checked_div(a, ONE), LAMBDA q : InnerUint_checked_mul(q, b))
         ELSE Try(InnerUint_checked_div(b, ONE), LAMBDA q : InnerUint_checked_mul(q, a))

checked_add(a, b) == InnerUint_checked_add(a, b)

checked_sub(a, b) == InnerUint_checked_sub(a, b)

\* a whole ONE added before truncating
ceiling_adding_one(a) ==
    Try(InnerUint_checked_add(a, ONE), LAMBDA v :
    Try(InnerUint_checked_div(v, ONE), LAMBDA q :
    InnerUint_checked_mul(q, ONE)))

ceiling(a) ==
    Try(InnerUint_checked_add(a, ONE - 1), LAMBDA v :
    Try(InnerUint_checked_div(v, ONE), LAMBDA q :
    InnerUint_checked_mul(q, ONE)))

---------------------------------------------------------------------------
(* SignedPreciseNumber (api/src/math/precise_number.rs): a PreciseNumber   *)
(* and a sign.  The constants of exp are the program's constants rounded   *)
(* to the scaled ONE.                                                      *)

signed(v) == [value |-> v, is_negative |-> FALSE]

negate(x) == [value |-> x.value, is_negative |-> ~x.is_negative]

Signed_checked_mul(x, y) ==
    Try(checked_mul(x.value, y.value), LAMBDA v :
    Some([value |-> v,
          is_negative |-> (x.is_negative \/ y.is_negative)
                            /\ ~(x.is_negative /\ y.is_negative)]))

Signed_checked_div(x, y) ==
    Try(checked_div(x.value, y.value), LAMBDA v :
    Some([value |-> v,
          is_negative |-> (x.is_negative \/ y.is_negative)
                            /\ ~(x.is_negative /\ y.is_negative)]))

Signed_checked_add(x, y) ==
    IF y.is_negative /\ x.is_negative
    THEN Try(checked_add(x.value, y.value), LAMBDA v :
         Some([value |-> v, is_negative |-> TRUE]))
    ELSE IF y.is_negative
    THEN IF y.value > x.value
         THEN Try(checked_sub(y.value, x.value), LAMBDA v :
              Some([value |-> v, is_negative |-> TRUE]))
         ELSE Try(checked_sub(x.value, y.value), LAMBDA v :
              Some([value |-> v, is_negative |-> FALSE]))
    ELSE IF x.is_negative
    THEN IF x.value > y.value
         THEN Try(checked_sub(x.value, y.value), LAMBDA v :
              Some([value |-> v, is_negative |-> TRUE]))
         ELSE Try(checked_sub(y.value, x.value), LAMBDA v :
              Some([value |-> v, is_negative |-> FALSE]))
    ELSE Try(checked_add(x.value, y.value), LAMBDA v :
         Some([value |-> v, is_negative |-> FALSE]))

Signed_checked_sub(x, y) == Signed_checked_add(x, negate(y))

Signed_floor(x) ==
    Try(floor(x.value), LAMBDA v :
    Some([value |-> v, is_negative |-> x.is_negative]))

HALF == ONE \div 2

TWO_PREC == 2 * ONE

\* 0.5 ln 2, 1.5 ln 2 and 1 / ln 2
HALFLN2 == (34657 * ONE + 50000) \div 100000

THREEHALFLN2 == (103972 * ONE + 50000) \div 100000

INVLN2 == (144270 * ONE + 50000) \div 100000

\* ln 2 = LN2HI / LN2HI_SCALE + LN2LO / LN2LO_SCALE
LN2HI == (69315 * ONE + 500) \div 1000

LN2HI_SCALE == 100 * ONE

LN2LO == 1

LN2LO_SCALE == 10000 * ONE

P1 == [value |-> (16667 * ONE + 50000) \div 100000, is_negative |-> FALSE]

P2 == [value |-> (278 * ONE + 50000) \div 100000, is_negative |-> TRUE]

P3 == [value |-> (7 * ONE + 50000) \div 100000, is_negative |-> FALSE]

P4 == [value |-> 0, is_negative |-> TRUE]

P5 == [value |-> 0, is_negative |-> FALSE]

\* `value << bits` and `value >> bits` of the InnerUint: bits that leave the
\* width are dropped, and a shift count that does not fit a usize panics
InnerUint_shl(v, bits) ==
    IF bits >= USIZE_MOD THEN Panic
    ELSE IF bits >= INNER_UINT_BITS THEN Some(0)
    ELSE Some((v % 2 ^ (INNER_UINT_BITS - bits)) * 2 ^ bits)

InnerUint_shr(v, bits) ==
    IF bits >= USIZE_MOD THEN Panic
    ELSE IF bits >= INNER_UINT_BITS THEN Some(0)
    ELSE Some(v \div 2 ^ bits)

\* argument reduction of exp: k, hi, lo and x = hi - lo with self = k ln2 + x
exp_reduce(self) ==
    IF self.value > HALFLN2
    THEN LET kOpt ==
                 IF self.value >= THREEHALFLN2
                 THEN Try(Signed_checked_mul(signed(INVLN2), self), LAMBDA m :
                      Try(Signed_checked_add(m, [value |-> HALF,
                                                 is_negative |-> self.is_negative]), LAMBDA h :
                      Signed_floor(h)))
                 ELSE Some([value |-> ONE, is_negative |-> self.is_negative])
         IN  Try(kOpt, LAMBDA k :
             Try(Signed_checked_mul(k, signed(LN2HI)), LAMBDA khi :
             Try(Signed_checked_div(khi, signed(LN2HI_SCALE)), LAMBDA khis :
             Try(Signed_checked_sub(self, khis), LAMBDA hi :
             Try(Signed_checked_mul(k, signed(LN2LO)), LAMBDA klo :
             Try(Signed_checked_div(klo, signed(LN2LO_SCALE)), LAMBDA lo :
             Try(Signed_checked_sub(hi, lo), LAMBDA x :
             Some([k |-> k, hi |-> hi, lo |-> lo, x |-> x]))))))))
    ELSE Some([k |-> signed(0), hi |-> self, lo |-> signed(0), x |-> self])

\* exp(r) on the primary range: y = 1 + (x * c / (2 - c) - lo + hi)
exp_primary(r) ==
    Try(Signed_checked_mul(r.x, r.x), LAMBDA xx :
    Try(Signed_checked_mul(xx, P5), LAMBDA t5 :
    Try(Signed_checked_add(P4, t5), LAMBDA p4p5 :
    Try(Signed_checked_mul(xx, p4p5), LAMBDA t4 :
    Try(Signed_checked_add(P3, t4), LAMBDA p3p4p5 :
    Try(Signed_checked_mul(xx, p3p4p5), LAMBDA t3 :
    Try(Signed_checked_add(P2, t3), LAMBDA p2p3p4p5 :
    Try(Signed_checked_mul(xx, p2p3p4p5), LAMBDA t2 :
    Try(Signed_checked_add(P1, t2), LAMBDA p1p2p3p4p5 :
    Try(Signed_checked_mul(p1p2p3p4p5, xx), LAMBDA t1 :
    Try(Signed_checked_sub(r.x, t1), LAMBDA c :
    Try(Signed_checked_mul(r.x, c), LAMBDA xc :
    Try(Signed_checked_sub(signed(TWO_PREC), c), LAMBDA twoc :
    Try(Signed_checked_div(xc, twoc), LAMBDA q :
    Try(Signed_checked_sub(q, r.lo), LAMBDA ql :
    Try(Signed_checked_add(ql, r.hi), LAMBDA qlh :
    Signed_checked_add(signed(ONE), qlh)))))))))))))))))

\* SignedPreciseNumber::exp: the result is scaled by 2^k with a shift
exp(self) ==
    Try(exp_reduce(self), LAMBDA r :
    Try(exp_primary(r), LAMBDA y :
    IF r.k.value = 0 THEN Some(y.value)
    ELSE Try(to_imprecise(r.k.value), LAMBDA bits :
         IF r.k.is_negative THEN InnerUint_shr(y.value, bits)
         ELSE InnerUint_shl(y.value, bits))))

---------------------------------------------------------------------------
(* ContinuousExponentialCurve (api/src/curve.rs) with the price            *)
(* a * b * e^(c * s).  The program's a = 11400.23 and b = c = 0.000000877  *)
(* are scaled to the supplies of the model: c * s stays in the range of    *)
(* exp, and a * b / c is a large number with a fractional part.            *)

CURVE_A == 10000

CURVE_B == 50

CURVE_C == CURVE_B

\* the cost without the exponential of the current supply subtracted
continuous_tokens_to_value_from_zero(current_supply, tokens) ==
    Try(checked_add(current_supply, tokens), LAMBDA new_supply :
    Try(checked_mul(CURVE_C, new_supply), LAMBDA ns :
    Try(exp(signed(ns)), LAMBDA exp_ns :
    Try(checked_mul(CURVE_A, CURVE_B), LAMBDA numerator :
    Try(checked_div(numerator, CURVE_C), LAMBDA ab_over_c :
    Try(checked_sub(exp_ns, ONE), LAMBDA diff :
    checked_mul(ab_over_c, diff)))))))

\* the difference of the two exponentials, multiplied by a * b / c
continuous_tokens_to_value(current_supply, tokens) ==
    Try(checked_add(current_supply, tokens), LAMBDA new_supply :
    Try(checked_mul(CURVE_C, current_supply), LAMBDA cs :
    Try(checked_mul(CURVE_C, new_supply), LAMBDA ns :
    Try(exp(signed(cs)), LAMBDA exp_cs :
    Try(exp(signed(ns)), LAMBDA exp_ns :
    Try(checked_mul(CURVE_A, CURVE_B), LAMBDA numerator :
    Try(checked_div(numerator, CURVE_C), LAMBDA ab_over_c :
    Try(checked_sub(exp_ns, exp_cs), LAMBDA diff :
    checked_mul(ab_over_c, diff)))))))))

---------------------------------------------------------------------------
(* The static tables, as their generators in api/src/curve.rs build them.  *)
(* PRICE[i] is the continuous spot price a * b * e^(c * s) at s = i *      *)
(* STEP_SIZE, with a * b = 0.01; CUMULATIVE[i] adds PRICE[k] * STEP_SIZE   *)
(* for k < i.  The model checks a family of curves: tbl is the growth      *)
(* e^(c * STEP_SIZE) of the price from one step to the next (1 is the flat *)
(* curve), and the table has TableLen entries instead of 210001.           *)

DISCRETE_PRICING_STEP_SIZE == 2

TableLen == 4

NumTables == 3

Steps == 0 .. TableLen - 1

PriceOf(t, i) == IF t <= NumTables THEN t ^ i ELSE 25 * (t - NumTables + 8) ^ i

RECURSIVE CumulativeOf(_, _)
CumulativeOf(t, i) ==
    IF i = 0 THEN 0
    ELSE CumulativeOf(t, i - 1) + PriceOf(t, i - 1) * DISCRETE_PRICING_STEP_SIZE

DISCRETE_PRICING_TABLE == [i \in Steps |-> PriceOf(tbl, i)]

DISCRETE_CUMULATIVE_VALUE_TABLE == [i \in Steps |-> CumulativeOf(tbl, i)]

\* table[i]: an index out of range panics
Index(table, i) == IF i \in DOMAIN table THEN Some(table[i]) ELSE Panic

---------------------------------------------------------------------------
(* DiscreteExponentialCurve *)

step_size == DISCRETE_PRICING_STEP_SIZE * ONE

\* supply.checked_div(&step_size) .floor() .to_imprecise() as usize, with
\* each of the three results still to be unwrapped or tried by the caller
step_index(q) ==
    Try(floor(q), LAMBDA f :
    Try(to_imprecise(f), LAMBDA n :
    Some(as_usize(n))))

spot_price_at_supply(current_supply) ==
    Unwrap(checked_div(current_supply, step_size), LAMBDA q :
    Unwrap(floor(q), LAMBDA f :
    Unwrap(to_imprecise(f), LAMBDA n :
    IF as_usize(n) >= TableLen THEN None
    ELSE Index(DISCRETE_PRICING_TABLE, as_usize(n)))))

\* the start step always charged to its boundary
tokens_in_start_step_unclamped(start_step_boundary, end_supply, current_supply, tokens) ==
    checked_sub(start_step_boundary, current_supply)

\* lines 131-138: the tokens of the purchase that fall in the start step
tokens_in_start_step_of(start_step_boundary, end_supply, current_supply, tokens) ==
    IF start_step_boundary > end_supply THEN Some(tokens)
    ELSE checked_sub(start_step_boundary, current_supply)

\* the complete steps counted from the start step itself
middle_cost_from_start_step(start_step, end_step) ==
    Try(Index(DISCRETE_CUMULATIVE_VALUE_TABLE, start_step), LAMBDA cumulative_start :
    Try(Index(DISCRETE_CUMULATIVE_VALUE_TABLE, end_step), LAMBDA cumulative_end :
    checked_sub(cumulative_end, cumulative_start)))

\* lines 153-157: the complete steps between the two partial steps
middle_cost_of(start_step, end_step) ==
    Try(Index(DISCRETE_CUMULATIVE_VALUE_TABLE, start_step + 1), LAMBDA cumulative_start :
    Try(Index(DISCRETE_CUMULATIVE_VALUE_TABLE, end_step), LAMBDA cumulative_end :
    checked_sub(cumulative_end, cumulative_start)))

\* lines 115-164: tokens_to_value after the zero check
tokens_to_value_nonzero(current_supply, tokens) ==
    Try(checked_add(current_supply, tokens), LAMBDA end_supply :
    Try(checked_div(current_supply, step_size), LAMBDA q0 :
    Try(step_index(q0), LAMBDA start_step :
    Try(checked_div(end_supply, step_size), LAMBDA q1 :
    Try(step_index(q1), LAMBDA end_step :
    IF end_step >= TableLen THEN None ELSE
    Try(new((start_step + 1) * DISCRETE_PRICING_STEP_SIZE), LAMBDA start_step_boundary :
    Try(tokens_in_start_step_of(start_step_boundary, end_supply, current_supply, tokens),
        LAMBDA tokens_in_start_step :
    Try(new(end_step * DISCRETE_PRICING_STEP_SIZE), LAMBDA end_step_boundary :
    Try(checked_sub(end_supply, end_step_boundary), LAMBDA tokens_in_end_step :
    Try(Index(DISCRETE_PRICING_TABLE, start_step), LAMBDA start_price :
    Try(checked_mul(tokens_in_start_step, start_price), LAMBDA start_cost :
    IF start_step = end_step THEN Some(start_cost) ELSE
    Try(middle_cost_of(start_step, end_step), LAMBDA middle_cost :
    Try(Index(DISCRETE_PRICING_TABLE, end_step), LAMBDA end_price :
    Try(checked_mul(tokens_in_end_step, end_price), LAMBDA end_cost :
    Try(checked_add(start_cost, middle_cost), LAMBDA sum :
    checked_add(sum, end_cost))))))))))))))))

\* the purchase of zero tokens not returned early
tokens_to_value_without_zero_check(current_supply, tokens) ==
    tokens_to_value_nonzero(current_supply, tokens)

\* lines 104-165
tokens_to_value(current_supply, tokens) ==
    IF tokens = 0 THEN Some(0) ELSE tokens_to_value_nonzero(current_supply, tokens)

\* the last step taken for a usable one
at_last_step_off_by_one(start_step) == start_step >= TableLen

\* line 186: no purchase starts in the last step of the table
at_last_step(start_step) == start_step >= TableLen - 1

\* the function returned r before its loop
Returned(r) == [returned |-> TRUE, val |-> r]

\* `o?` in the part of value_to_tokens before its loop
TryR(o, F(_)) == IF IsSome(o) THEN F(o[1]) ELSE Returned(o)

\* lines 172-213: value_to_tokens up to its loop: the value it returns
\* there, or else the local variables the loop and the rest use
value_to_tokens_until_search(current_supply, value) ==
    IF value = 0 THEN Returned(Some(0)) ELSE
    TryR(checked_div(current_supply, step_size), LAMBDA q0 :
    TryR(step_index(q0), LAMBDA start_step :
    IF at_last_step(start_step) THEN Returned(None) ELSE
    TryR(new((start_step + 1) * DISCRETE_PRICING_STEP_SIZE), LAMBDA start_step_boundary :
    TryR(checked_sub(start_step_boundary, current_supply), LAMBDA tokens_in_start_step :
    TryR(Index(DISCRETE_PRICING_TABLE, start_step), LAMBDA start_price :
    TryR(checked_mul(tokens_in_start_step, start_price), LAMBDA cost_to_complete_start_step :
    IF value < cost_to_complete_start_step
    THEN Returned(checked_div(value, start_price)) ELSE
    TryR(checked_sub(value, cost_to_complete_start_step), LAMBDA remaining_after_start :
    TryR(Index(DISCRETE_CUMULATIVE_VALUE_TABLE, start_step + 1), LAMBDA base_cumulative :
    TryR(checked_add(base_cumulative, remaining_after_start), LAMBDA target_cumulative :
    TryR(as_u128(target_cumulative), LAMBDA target_cumulative_raw :
    [returned |-> FALSE,
     val |-> [start_step |-> start_step,
              start_step_boundary |-> start_step_boundary,
              tokens_in_start_step |-> tokens_in_start_step,
              remaining_after_start |-> remaining_after_start,
              base_cumulative |-> base_cumulative,
              target_cumulative_raw |-> target_cumulative_raw]]))))))))))

\* the comparison of the loop made strict
search_step_strict(lo, hi, target_cumulative_raw) ==
    LET mid == (lo + hi + 1) \div 2
        mid_cumulative == DISCRETE_CUMULATIVE_VALUE_TABLE[mid]
    IN  IF mid_cumulative < target_cumulative_raw THEN <<mid, hi>> ELSE <<lo, mid - 1>>

\* lines 214-223: one iteration of the loop, <<low, high>> after it
search_step(lo, hi, target_cumulative_raw) ==
    LET mid == (lo + hi + 1) \div 2
        mid_cumulative == DISCRETE_CUMULATIVE_VALUE_TABLE[mid]
    IN  IF mid_cumulative <= target_cumulative_raw THEN <<mid, hi>> ELSE <<lo, mid - 1>>

\* lines 211-226: the loop run to its end
RECURSIVE binary_search(_, _, _)
binary_search(lo, hi, target_cumulative_raw) ==
    IF lo < hi
    THEN LET n == search_step(lo, hi, target_cumulative_raw)
         IN  binary_search(n[1], n[2], target_cumulative_raw)
    ELSE lo

\* the complete steps counted from supply zero
tokens_from_complete_steps_from_zero(end_step, start_step_boundary) ==
    new(end_step * DISCRETE_PRICING_STEP_SIZE)

\* lines 232-234: the tokens of the complete steps
tokens_from_complete_steps_of(end_step, start_step_boundary) ==
    Try(new(end_step * DISCRETE_PRICING_STEP_SIZE), LAMBDA end_step_supply :
    checked_sub(end_step_supply, start_step_boundary))

\* lines 226-248: value_to_tokens after its loop
value_to_tokens_after_search(l, end_step) ==
    IF end_step >= TableLen THEN None ELSE
    Try(tokens_from_complete_steps_of(end_step, l.start_step_boundary),
        LAMBDA tokens_from_complete_steps :
    Try(Index(DISCRETE_CUMULATIVE_VALUE_TABLE, end_step), LAMBDA cumulative_at_end_step :
    Try(checked_sub(cumulative_at_end_step, l.base_cumulative),
        LAMBDA value_used_for_complete_steps :
    Try(checked_sub(l.remaining_after_start, value_used_for_complete_steps),
        LAMBDA remaining_value :
    Try(Index(DISCRETE_PRICING_TABLE, end_step), LAMBDA end_price :
    Try(checked_div(remaining_value, end_price), LAMBDA tokens_in_end_step :
    Try(checked_add(l.tokens_in_start_step, tokens_from_complete_steps), LAMBDA sum :
    checked_add(sum, tokens_in_end_step))))))))

value_to_tokens(current_supply, value) ==
    LET pre == value_to_tokens_until_search(current_supply, value)
    IN  IF pre.returned THEN pre.val
        ELSE value_to_tokens_after_search(pre.val,
                 binary_search(pre.val.start_step + 1, TableLen - 1,
                               pre.val.target_cumulative_raw))

---------------------------------------------------------------------------
(* The pool instructions (program/src/instruction).  A token amount is a   *)
(* u64 count of the smallest unit of its mint: quarks of the target token, *)
(* raw units of the base token.  The widths are scaled with the rest: a    *)
(* u64 has U64_BITS bits, a mint has at most MAX_DECIMAL_PLACES decimals   *)
(* (the decimals of ONE), a fee rate counts hundredths instead of          *)
(* ten-thousandths, and the target token has one decimal and as many       *)
(* tokens as the table has steps.                                          *)

U64_BITS == 9

U64_MAX == 2 ^ U64_BITS - 1

u64_try_from(n) == IF n > U64_MAX THEN None ELSE Some(n)

u64_checked_mul(a, b) == IF a * b > U64_MAX THEN None ELSE Some(a * b)

u64_checked_sub(a, b) == IF a < b THEN None ELSE Some(a - b)

\* 10u64.checked_pow(decimal_places)
u64_checked_pow10(d) == IF 10 ^ d > U64_MAX THEN None ELSE Some(10 ^ d)

MAX_DECIMAL_PLACES == 2

BASIS_POINTS == 100

TOKEN_DECIMALS == 1

QUARKS_PER_TOKEN == 10 ^ TOKEN_DECIMALS

MAX_TOKEN_SUPPLY == (TableLen - 1) * DISCRETE_PRICING_STEP_SIZE

\* the decimals of the base mint the pool was created with
BASE_DECIMALS == 1

\* the raw value of the whole table: what every token of the curve costs
MAX_CUMULATIVE_VALUE == CumulativeOf(tbl, TableLen - 1)

\* the amount divided by the scale as a u64, before it becomes a number
to_numeric_dividing_first(amount, decimal_places) ==
    IF decimal_places > MAX_DECIMAL_PLACES THEN None ELSE
    Try(u64_checked_pow10(decimal_places), LAMBDA scale :
    new(amount \div scale))

\* no limit on the decimal places, and the power of ten taken unchecked
to_numeric_without_limit(amount, decimal_places) ==
    Try(new(amount), LAMBDA amount_scaled :
    Try(new(10 ^ decimal_places), LAMBDA divisor :
    checked_div(amount_scaled, divisor)))

\* an Err(ProgramError) is None here: the instruction fails either way
to_numeric(amount, decimal_places) ==
    IF decimal_places > MAX_DECIMAL_PLACES THEN None ELSE
    Try(u64_checked_pow10(decimal_places), LAMBDA scale :
    Try(new(amount), LAMBDA amount_scaled :
    Try(new(scale), LAMBDA divisor :
    checked_div(amount_scaled, divisor))))

\* the product truncated instead of rounded
from_numeric_truncating(value, decimal_places) ==
    IF decimal_places > MAX_DECIMAL_PLACES THEN None ELSE
    Try(u64_checked_pow10(decimal_places), LAMBDA scale :
    Try(new(scale), LAMBDA multiplier :
    Try(checked_mul(value, multiplier), LAMBDA r :
    u64_try_from(r \div ONE))))

from_numeric(value, decimal_places) ==
    IF decimal_places > MAX_DECIMAL_PLACES THEN None ELSE
    Try(u64_checked_pow10(decimal_places), LAMBDA scale :
    Try(new(scale), LAMBDA multiplier :
    Try(checked_mul(value, multiplier), LAMBDA r :
    Try(to_imprecise(r), LAMBDA result :
    u64_try_from(result)))))

from_basis_points(bps) ==
    Try(new(bps), LAMBDA value :
    Try(new(BASIS_POINTS), LAMBDA divisor :
    checked_div(value, divisor)))

\* check_condition(condition, message)?
Check(condition, rest) == IF condition THEN rest ELSE None

\* the owners of token accounts: two users
Users == {1, 2}

\* spl_token transfer of `amount` out of an account holding `balance`
CanDebit(balance, amount) == amount <= balance

\* the new value of the base vault not capped
buy_common_uncapped(p, buyer, in_amount_arg, min_amount_out_arg) ==
    LET tokens_left_raw == p.target_vault
        current_value_raw == p.base_vault
        in_amount_raw == IF in_amount_arg = 0 THEN p.base[buyer] ELSE in_amount_arg
        max_cumulative_value == MAX_CUMULATIVE_VALUE
    IN
    Try(u64_checked_mul(MAX_TOKEN_SUPPLY, QUARKS_PER_TOKEN), LAMBDA max_quarks :
    Try(u64_checked_sub(max_quarks, tokens_left_raw), LAMBDA supply_from_bonding :
    Try(to_numeric(tokens_left_raw, TOKEN_DECIMALS), LAMBDA tokens_left :
    Try(to_numeric(supply_from_bonding, TOKEN_DECIMALS), LAMBDA supply :
    Try(to_numeric(current_value_raw, BASE_DECIMALS), LAMBDA current_value :
    Try(to_numeric(in_amount_raw, BASE_DECIMALS), LAMBDA in_amount :
    Try(checked_add(current_value, in_amount), LAMBDA uncapped_new_value :
    LET capped_new_value == uncapped_new_value
    IN
    Try(checked_sub(capped_new_value, current_value), LAMBDA capped_in_amount :
    Try(to_numeric(0, 0), LAMBDA zero :
    Try(value_to_tokens(zero, capped_new_value), LAMBDA new_supply :
    Try(checked_sub(new_supply, supply), LAMBDA bought :
    LET tokens_bought == IF bought > tokens_left THEN tokens_left ELSE bought
    IN
    Try(from_numeric(capped_in_amount, BASE_DECIMALS), LAMBDA actual_in_amount_raw :
    Try(from_numeric(tokens_bought, TOKEN_DECIMALS), LAMBDA tokens_bought_raw :
    Check(tokens_bought_raw > 0,
    Check(tokens_bought_raw >= min_amount_out_arg,
    Check(CanDebit(p.base[buyer], actual_in_amount_raw),
    Some([tokens_bought_raw |-> tokens_bought_raw,
          pool |-> [p EXCEPT !.base[buyer] = @ - actual_in_amount_raw,
                             !.base_vault = @ + actual_in_amount_raw]])))))))))))))))))

\* buy_common ends with the buyer's payment entering the base vault
buy_common(p, buyer, in_amount_arg, min_amount_out_arg) ==
    LET tokens_left_raw == p.target_vault
        current_value_raw == p.base_vault
        in_amount_raw == IF in_amount_arg = 0 THEN p.base[buyer] ELSE in_amount_arg
        max_cumulative_value == MAX_CUMULATIVE_VALUE
    IN
    Try(u64_checked_mul(MAX_TOKEN_SUPPLY, QUARKS_PER_TOKEN), LAMBDA max_quarks :
    Try(u64_checked_sub(max_quarks, tokens_left_raw), LAMBDA supply_from_bonding :
    Try(to_numeric(tokens_left_raw, TOKEN_DECIMALS), LAMBDA tokens_left :
    Try(to_numeric(supply_from_bonding, TOKEN_DECIMALS), LAMBDA supply :
    Try(to_numeric(current_value_raw, BASE_DECIMALS), LAMBDA current_value :
    Try(to_numeric(in_amount_raw, BASE_DECIMALS), LAMBDA in_amount :
    Try(checked_add(current_value, in_amount), LAMBDA uncapped_new_value :
    LET capped_new_value ==
            IF uncapped_new_value > max_cumulative_value
            THEN max_cumulative_value ELSE uncapped_new_value
    IN
    Try(checked_sub(capped_new_value, current_value), LAMBDA capped_in_amount :
    Try(to_numeric(0, 0), LAMBDA zero :
    Try(value_to_tokens(zero, capped_new_value), LAMBDA new_supply :
    Try(checked_sub(new_supply, supply), LAMBDA bought :
    LET tokens_bought == IF bought > tokens_left THEN tokens_left ELSE bought
    IN
    Try(from_numeric(capped_in_amount, BASE_DECIMALS), LAMBDA actual_in_amount_raw :
    Try(from_numeric(tokens_bought, TOKEN_DECIMALS), LAMBDA tokens_bought_raw :
    Check(tokens_bought_raw > 0,
    Check(tokens_bought_raw >= min_amount_out_arg,
    Check(CanDebit(p.base[buyer], actual_in_amount_raw),
    Some([tokens_bought_raw |-> tokens_bought_raw,
          pool |-> [p EXCEPT !.base[buyer] = @ - actual_in_amount_raw,
                             !.base_vault = @ + actual_in_amount_raw]])))))))))))))))))

\* min_amount_out not passed on to buy_common
process_buy_tokens_ignoring_min_amount_out(p, buyer, in_amount, min_amount_out) ==
    Try(buy_common(p, buyer, in_amount, 0), LAMBDA r :
    Check(CanDebit(r.pool.target_vault, r.tokens_bought_raw),
    Some([r.pool EXCEPT !.target_vault = @ - r.tokens_bought_raw,
                        !.target[buyer] = @ + r.tokens_bought_raw,
                        !.sold_out = @ \/ r.pool.target_vault = r.tokens_bought_raw])))

\* the bought tokens credited to the buyer and not taken out of the vault
process_buy_tokens_crediting_only(p, buyer, in_amount, min_amount_out) ==
    Try(buy_common(p, buyer, in_amount, min_amount_out), LAMBDA r :
    Some([r.pool EXCEPT !.target[buyer] = @ + r.tokens_bought_raw]))

\* the instruction: buy_common, then the tokens leave the target vault
process_buy_tokens(p, buyer, in_amount, min_amount_out) ==
    Try(buy_common(p, buyer, in_amount, min_amount_out), LAMBDA r :
    Check(CanDebit(r.pool.target_vault, r.tokens_bought_raw),
    Some([r.pool EXCEPT !.target_vault = @ - r.tokens_bought_raw,
                        !.target[buyer] = @ + r.tokens_bought_raw,
                        !.sold_out = @ \/ r.pool.target_vault = r.tokens_bought_raw])))

\* sell_common ends with the tokens entering the target vault and the fee
\* burned out of the base vault
sell_common(p, seller, in_amount_arg, min_amount_out_arg) ==
    LET tokens_left_raw == p.target_vault
        value_left_raw == p.base_vault
        in_amount_raw == IF in_amount_arg = 0 THEN p.target[seller] ELSE in_amount_arg
    IN
    Try(u64_checked_mul(MAX_TOKEN_SUPPLY, QUARKS_PER_TOKEN), LAMBDA max_quarks :
    Try(u64_checked_sub(max_quarks, tokens_left_raw), LAMBDA supply_from_bonding :
    Try(to_numeric(in_amount_raw, TOKEN_DECIMALS), LAMBDA in_amount :
    Try(to_numeric(supply_from_bonding, TOKEN_DECIMALS), LAMBDA supply :
    Unwrap(checked_sub(supply, in_amount), LAMBDA new_supply :
    Try(to_numeric(value_left_raw, BASE_DECIMALS), LAMBDA value_left :
    Try(from_basis_points(p.sell_fee), LAMBDA fee_rate :
    Try(tokens_to_value(0, new_supply), LAMBDA new_value :
    Try(checked_sub(value_left, new_value), LAMBDA difference :
    LET total_sell_value == IF difference > value_left THEN value_left ELSE difference
    IN
    Try(checked_mul(total_sell_value, fee_rate), LAMBDA fee_amount :
    Try(checked_sub(total_sell_value, fee_amount), LAMBDA sell_value_after_fee :
    Try(from_numeric(fee_amount, BASE_DECIMALS), LAMBDA fee_amount_raw :
    Try(from_numeric(sell_value_after_fee, BASE_DECIMALS), LAMBDA sell_value_after_fee_raw :
    Check(sell_value_after_fee_raw > 0,
    Check(p.sell_fee > 0 => fee_amount_raw > 0,
    Check(sell_value_after_fee_raw >= min_amount_out_arg,
    Check(CanDebit(p.target[seller], in_amount_raw),
    Check(CanDebit(p.base_vault, fee_amount_raw),
    Some([sell_value_after_fee_raw |-> sell_value_after_fee_raw,
          fee_amount_raw |-> fee_amount_raw,
          pool |-> [p EXCEPT !.target[seller] = @ - in_amount_raw,
                             !.target_vault = @ + in_amount_raw,
                             !.base_vault = @ - fee_amount_raw]])))))))))))))))))))

\* the payout credited to the seller and not taken out of the base vault
process_sell_tokens_crediting_only(p, seller, in_amount, min_amount_out) ==
    Try(sell_common(p, seller, in_amount, min_amount_out), LAMBDA r :
    Some([r.pool EXCEPT !.base[seller] = @ + r.sell_value_after_fee_raw]))

\* the instruction: sell_common, then the payout leaves the base vault
process_sell_tokens(p, seller, in_amount, min_amount_out) ==
    Try(sell_common(p, seller, in_amount, min_amount_out), LAMBDA r :
    Check(CanDebit(r.pool.base_vault, r.sell_value_after_fee_raw),
    Some([r.pool EXCEPT !.base_vault = @ - r.sell_value_after_fee_raw,
                        !.base[seller] = @ + r.sell_value_after_fee_raw])))

\* the fees burned and still counted as accumulated
process_burn_fees_keeping_count(p, accounts_match) ==
    LET fees_to_burn == p.fees_accumulated
    IN  Check(accounts_match,
        Check(fees_to_burn > 0,
        Check(CanDebit(p.base_vault, fees_to_burn),
        Some([p EXCEPT !.base_vault = @ - fees_to_burn]))))

\* the fees burned without the check that there are any
process_burn_fees_without_check(p, accounts_match) ==
    LET fees_to_burn == p.fees_accumulated
    IN  Check(accounts_match,
        Check(CanDebit(p.base_vault, fees_to_burn),
        Some([p EXCEPT !.base_vault = @ - fees_to_burn,
                       !.fees_accumulated = 0])))

\* the instruction of any signer: burn the accumulated fees;
\* accounts_match: the base mint and base vault passed are the pool's
process_burn_fees(p, accounts_match) ==
    LET fees_to_burn == p.fees_accumulated
    IN  Check(accounts_match,
        Check(fees_to_burn > 0,
        Check(CanDebit(p.base_vault, fees_to_burn),
        Some([p EXCEPT !.base_vault = @ - fees_to_burn,
                       !.fees_accumulated = 0]))))

---------------------------------------------------------------------------
(* The callers.  The curve is stateless: a caller picks an entry point and *)
(* its inputs (a supply, tokens or a value), makes the call and keeps the  *)
(* result: args holds the inputs of the last call and out its results.     *)
(* value_to_tokens runs its loop one iteration at a time: while op is      *)
(* "search", locals holds its local variables and low, high the interval.  *)

\* one step past the end of the table
MaxRaw == (TableLen + 1) * step_size

\* supplies around the point where the step index no longer fits a usize,
\* and at the top of the InnerUint range
Huge ==
    { (USIZE_MOD - 1) * step_size, USIZE_MOD * step_size - ONE, USIZE_MOD * step_size,
      (USIZE_MOD + 1) * step_size, (USIZE_MOD + 1) * step_size + ONE,
      INNER_UINT_MAX \div ONE, INNER_UINT_MAX }

\* every raw amount up to MaxRaw
Fine == 0 .. MaxRaw

\* quarter tokens and the raw units next to a half token
Mid == {x \in Fine : x % (ONE \div 4) = 0 \/ x % (ONE \div 2) \in {1, ONE \div 2 - 1}}

\* half tokens and the raw units next to a step boundary
Coarse == {x \in Fine : x % (ONE \div 2) = 0 \/ x % step_size \in {1, step_size - 1}}

\* values up to one step past the cost of the whole table
MaxValue ==
    CumulativeOf(tbl, TableLen - 1)
        + 2 * PriceOf(tbl, TableLen - 1) * DISCRETE_PRICING_STEP_SIZE

Values == (0 .. MaxValue) \cup {U128_MAX, U128_MAX + 1, INNER_UINT_MAX}

\* a few of the huge supplies, for the calls with three inputs
HugeFew == {USIZE_MOD * step_size, (USIZE_MOD + 1) * step_size, INNER_UINT_MAX \div ONE}

\* what the first user holds of the base token when the pool is created
UserBase == IF tbl <= NumTables THEN U64_MAX \div 32 ELSE U64_MAX \div 8

\* a pool as process_initialize_pool leaves it, and the two users' token
\* accounts; sold_out records that a buy has emptied the target vault
FreshPool(fee) ==
    [base |-> [u \in Users |-> IF u = 1 THEN UserBase ELSE 0],
     target |-> [u \in Users |-> 0],
     base_vault |-> 0,
     target_vault |-> MAX_TOKEN_SUPPLY * QUARKS_PER_TOKEN,
     fees_accumulated |-> 0,
     sell_fee |-> fee,
     sold_out |-> FALSE]

NoLocals ==
    [start_step |-> 0, start_step_boundary |-> 0, tokens_in_start_step |-> 0,
     remaining_after_start |-> 0, base_cumulative |-> 0, target_cumulative_raw |-> 0]

Init ==
    /\ tbl \in 1 .. NumTables
    /\ op = "idle"
    /\ args = <<>>
    /\ out = <<>>
    /\ locals = NoLocals
    /\ low = 0
    /\ high = 0
    /\ pool = FreshPool(0)
    /\ before = pool

SpotPrice ==
    /\ op = "idle"
    /\ \E s \in Fine \cup Huge :
        /\ args' = <<s>>
        /\ out' = <<spot_price_at_supply(s)>>
    /\ op' = "spot_price_at_supply"
    /\ UNCHANGED <<tbl, locals, low, high, pool, before>>

TokensToValue ==
    /\ op = "idle"
    /\ \E s \in Mid \cup Huge, d \in Mid \cup Huge :
        /\ args' = <<s, d>>
        /\ out' = <<tokens_to_value(s, d)>>
    /\ op' = "tokens_to_value"
    /\ UNCHANGED <<tbl, locals, low, high, pool, before>>

\* value_to_tokens is called: it returns before its loop, or enters it
ValueToTokens ==
    /\ op = "idle"
    /\ \E s \in Mid \cup Huge, v \in Values :
        LET pre == value_to_tokens_until_search(s, v)
        IN  /\ args' = <<s, v>>
            /\ IF pre.returned
               THEN /\ op' = "value_to_tokens"
                    /\ out' = <<pre.val>>
                    /\ UNCHANGED <<locals, low, high>>
               ELSE /\ op' = "search"
                    /\ out' = <<>>
                    /\ locals' = pre.val
                    /\ low' = pre.val.start_step + 1
                    /\ high' = TableLen - 1
    /\ UNCHANGED <<tbl, pool, before>>

\* one iteration of `while low < high`
SearchStep ==
    /\ op = "search"
    /\ low < high
    /\ low' = search_step(low, high, locals.target_cumulative_raw)[1]
    /\ high' = search_step(low, high, locals.target_cumulative_raw)[2]
    /\ UNCHANGED <<tbl, op, args, out, locals, pool, before>>

\* the loop ends: end_step = low, and the rest of value_to_tokens runs
SearchDone ==
    /\ op = "search"
    /\ ~(low < high)
    /\ op' = "value_to_tokens"
    /\ out' = <<value_to_tokens_after_search(locals, low)>>
    /\ UNCHANGED <<tbl, args, locals, low, high, pool, before>>

\* buy d1 + d2 at once, and d1 then d2 from the new supply
\* (test_discrete_tokens_to_value_is_additive)
BuyInParts ==
    /\ op = "idle"
    /\ \E s \in Mid \cup HugeFew, d1 \in Coarse \cup HugeFew, d2 \in Coarse \cup HugeFew :
        /\ IsSome(checked_add(d1, d2))
        /\ IsSome(checked_add(s, d1))
        /\ args' = <<s, d1, d2>>
        /\ out' = <<tokens_to_value(s, d1 + d2), tokens_to_value(s, d1),
                    tokens_to_value(s + d1, d2)>>
    /\ op' = "buy_in_parts"
    /\ UNCHANGED <<tbl, locals, low, high, pool, before>>

\* supplies and amounts of the calls on the continuous curve
ContinuousSupplies == {x \in Fine : x % (ONE \div 2) = 0} \cup HugeFew

ContinuousAmounts == 0 .. ONE \div 8

\* buy d1 + d2 at once, and d1 then d2, on the continuous curve
ContinuousBuyInParts ==
    /\ op = "idle"
    /\ \E s \in ContinuousSupplies, d1 \in ContinuousAmounts, d2 \in ContinuousAmounts :
        /\ args' = <<s, d1, d2>>
        /\ out' = <<continuous_tokens_to_value(s, d1 + d2),
                    continuous_tokens_to_value(s, d1),
                    continuous_tokens_to_value(s + d1, d2)>>
    /\ op' = "continuous_buy_in_parts"
    /\ UNCHANGED <<tbl, locals, low, high, pool, before>>

\* tokens -> value -> tokens (test_discrete_roundtrip_tokens_to_value_to_tokens)
RoundTrip ==
    /\ op = "idle"
    /\ \E s \in Mid \cup Huge, d \in Mid \cup Huge :
        /\ IsSome(tokens_to_value(s, d))
        /\ args' = <<s, d>>
        /\ out' = <<tokens_to_value(s, d), value_to_tokens(s, tokens_to_value(s, d)[1])>>
    /\ op' = "roundtrip"
    /\ UNCHANGED <<tbl, locals, low, high, pool, before>>

Return ==
    /\ op \notin {"idle", "search"}
    /\ op' = "idle"
    /\ args' = <<>>
    /\ out' = <<>>
    /\ locals' = NoLocals
    /\ low' = 0
    /\ high' = 0
    /\ before' = pool
    /\ UNCHANGED <<tbl, pool>>

Next ==
    \/ SpotPrice
    \/ TokensToValue
    \/ ValueToTokens
    \/ SearchStep
    \/ SearchDone
    \/ BuyInParts
    \/ RoundTrip
    \/ ContinuousBuyInParts
    \/ Return

Spec == Init /\ [][Next]_vars

\* the callers of value_to_tokens alone; a call that has entered its loop
\* goes on running: the loop takes its next iteration and, once it has
\* ended, the rest of the function runs
SearchNext ==
    \/ ValueToTokens
    \/ SearchStep
    \/ SearchDone
    \/ Return

SearchSpec ==
    Init /\ [][SearchNext]_vars /\ WF_vars(SearchStep) /\ WF_vars(SearchDone)

\* the fee rate of a pool that charges one: a quarter
SELL_FEE == BASIS_POINTS \div 4

\* the pools, by curve and fee rate: a cheap curve, where a raw base unit
\* buys several quarks, without and with a fee, and a steep curve, where a
\* quark comes to cost more than twenty raw base units, without
PoolKinds == {<<NumTables, 0>>, <<NumTables, SELL_FEE>>, <<NumTables + 1, 0>>}

\* amounts of an instruction; 0 stands for all the signer holds
BuyAmounts == {0, 1, 2, 5, 20}

SellAmounts == {0, 1, 2, 10, 40}

MinAmountsOut == {0, 3}

\* the first user trades both ways with the amounts it picks; the second
\* holds no base token and buys with all it holds
AmountsOf(user, amounts) == IF user = 1 THEN amounts ELSE {0}

Sellers == {1}

PoolInit ==
    /\ \E kind \in PoolKinds :
        /\ tbl = kind[1]
        /\ pool = FreshPool(kind[2])
    /\ op = "idle"
    /\ args = <<>>
    /\ out = <<>>
    /\ locals = NoLocals
    /\ low = 0
    /\ high = 0
    /\ before = pool

\* an instruction that fails leaves every account as it was
Commit(result) == IF IsSome(result) THEN result[1] ELSE pool

BuyTokens ==
    /\ op = "idle"
    /\ \E buyer \in Users :
        \E in_amount \in AmountsOf(buyer, BuyAmounts), min_amount_out \in MinAmountsOut :
            /\ args' = <<buyer, in_amount, min_amount_out>>
            /\ out' = <<process_buy_tokens(pool, buyer, in_amount, min_amount_out)>>
            /\ pool' = Commit(process_buy_tokens(pool, buyer, in_amount, min_amount_out))
    /\ op' = "buy_tokens"
    /\ before' = pool
    /\ UNCHANGED <<tbl, locals, low, high>>

SellTokens ==
    /\ op = "idle"
    /\ \E seller \in Sellers, in_amount \in SellAmounts, min_amount_out \in MinAmountsOut :
        /\ args' = <<seller, in_amount, min_amount_out>>
        /\ out' = <<process_sell_tokens(pool, seller, in_amount, min_amount_out)>>
        /\ pool' = Commit(process_sell_tokens(pool, seller, in_amount, min_amount_out))
    /\ op' = "sell_tokens"
    /\ before' = pool
    /\ UNCHANGED <<tbl, locals, low, high>>

BurnFees ==
    /\ op = "idle"
    /\ \E payer \in Users, accounts_match \in BOOLEAN :
        /\ args' = <<payer, accounts_match>>
        /\ out' = <<process_burn_fees(pool, accounts_match)>>
        /\ pool' = Commit(process_burn_fees(pool, accounts_match))
    /\ op' = "burn_fees"
    /\ before' = pool
    /\ UNCHANGED <<tbl, locals, low, high>>

PoolNext ==
    \/ BuyTokens
    \/ SellTokens
    \/ BurnFees
    \/ Return

PoolSpec == PoolInit /\ [][PoolNext]_vars

\* pools that hold accumulated fees, as account data: the fees are part of
\* the base vault balance
PoolsWithFees ==
    {[FreshPool(SELL_FEE) EXCEPT !.base_vault = vf[1], !.fees_accumulated = vf[2],
                                !.base[1] = UserBase - vf[1]] :
        vf \in {x \in (0 .. UserBase) \X (0 .. UserBase) : x[2] <= x[1]}}

BurnInit ==
    /\ tbl = NumTables
    /\ op = "idle"
    /\ args = <<>>
    /\ out = <<>>
    /\ locals = NoLocals
    /\ low = 0
    /\ high = 0
    /\ pool \in PoolsWithFees
    /\ before = pool

BurnNext ==
    \/ BurnFees
    \/ Return

BurnSpec == BurnInit /\ [][BurnNext]_vars

\* raw values for the calls of the arithmetic: small ones, the values
\* around half of ONE and ONE, factors of products next to the top of the
\* InnerUint range, and the top of the range itself
Raws ==
    (0 .. 3) \cup (ONE \div 2 - 1 .. ONE \div 2 + 1) \cup (ONE - 1 .. ONE + 1)
        \cup {2 * ONE - 1, 2 * ONE, (5 * ONE) \div 2, 10 * ONE, 12345}
        \cup {47, 2887, 2896, 2897, 178481}
        \cup (INNER_UINT_MAX \div ONE - 1 .. INNER_UINT_MAX \div ONE + 1)
        \cup {INNER_UINT_MAX \div 2, INNER_UINT_MAX \div 2 + 1}
        \cup {(INNER_UINT_MAX \div ONE - 1) * ONE + 1,
              (INNER_UINT_MAX \div ONE) * ONE - (ONE - 1) + (INNER_UINT_MAX % ONE),
              (INNER_UINT_MAX \div ONE) * ONE - (ONE - 1) + (INNER_UINT_MAX % ONE) + 1,
              (INNER_UINT_MAX \div ONE) * ONE}
        \cup (INNER_UINT_MAX - ONE \div 2 - 1 .. INNER_UINT_MAX - ONE \div 2 + 1)
        \cup {INNER_UINT_MAX - 1, INNER_UINT_MAX}

CheckedMul ==
    /\ op = "idle"
    /\ \E a \in Raws, b \in Raws :
        /\ args' = <<a, b>>
        /\ out' = <<checked_mul(a, b)>>
    /\ op' = "checked_mul"
    /\ UNCHANGED <<tbl, locals, low, high, pool, before>>

CheckedDiv ==
    /\ op = "idle"
    /\ \E a \in Raws, b \in Raws :
        /\ args' = <<a, b>>
        /\ out' = <<checked_div(a, b)>>
    /\ op' = "checked_div"
    /\ UNCHANGED <<tbl, locals, low, high, pool, before>>

\* floor and ceiling, each applied once and twice
FloorCeiling ==
    /\ op = "idle"
    /\ \E x \in Raws \cup (0 .. 3 * ONE) :
        /\ args' = <<x>>
        /\ out' = <<floor(x), ceiling(x), Try(floor(x), floor), Try(ceiling(x), ceiling)>>
    /\ op' = "floor_ceiling"
    /\ UNCHANGED <<tbl, locals, low, high, pool, before>>

\* the decimal places of a mint, a u8: up to the limit and past it
DecimalPlaces == 0 .. 2 * MAX_DECIMAL_PLACES

\* an amount to a number and back, and the number of `amount` whole tokens
\* to an amount (test_roundtrip_decimal_6, test_decimal_overflow_rejected)
Convert ==
    /\ op = "idle"
    /\ \E amount \in 0 .. U64_MAX, decimal_places \in DecimalPlaces :
        /\ args' = <<amount, decimal_places>>
        /\ out' = <<to_numeric(amount, decimal_places),
                    Try(to_numeric(amount, decimal_places),
                        LAMBDA numeric : from_numeric(numeric, decimal_places)),
                    Try(new(amount), LAMBDA numeric : from_numeric(numeric, decimal_places))>>
    /\ op' = "convert"
    /\ UNCHANGED <<tbl, locals, low, high, pool, before>>

\* inputs of exp: every raw value up to 2 and quarter units up to the
\* point where the shift count no longer fits a usize, of either sign
ExpInputs ==
    {[value |-> v, is_negative |-> n] :
        v \in (0 .. 2 * ONE) \cup {i * (ONE \div 4) : i \in 0 .. 4 * USIZE_MOD},
        n \in BOOLEAN}

Exp ==
    /\ op = "idle"
    /\ \E x \in ExpInputs :
        /\ args' = <<x>>
        /\ out' = <<exp(x)>>
    /\ op' = "exp"
    /\ UNCHANGED <<tbl, locals, low, high, pool, before>>

MathNext ==
    \/ CheckedMul
    \/ CheckedDiv
    \/ FloorCeiling
    \/ Convert
    \/ Exp
    \/ Return

MathSpec == Init /\ [][MathNext]_vars

---------------------------------------------------------------------------
(* Properties *)

\* the step a supply lies in, as a mathematical integer
MathStep(x) == x \div step_size

\* a whole number of tokens
Whole(x) == x % ONE = 0

Abs(x) == IF x < 0 THEN -x ELSE x

\* the purchase [s, s + d) ends inside the table
InTable(s, d) == MathStep(s + d) < TableLen

AllSome == IsSome(out[1]) /\ IsSome(out[2]) /\ IsSome(out[3])

\* cost of d1 + d2 at once minus the cost of d1 and then d2
PartsDiff == out[1][1] - (out[2][1] + out[3][1])

AbOverC == checked_div(checked_mul(CURVE_A, CURVE_B)[1], CURVE_C)[1]

ExpDiff(s, d) ==
    exp(signed(checked_mul(CURVE_C, s + d)[1]))[1] - exp(signed(checked_mul(CURVE_C, s)[1]))[1]

\* C11 (as claimed): on the continuous curve, whenever the three calls return
\* a value, buying D1 + D2 at once costs exactly what buying D1 and then D2
\* costs.
C11_ContinuousAdditiveExact ==
    op = "continuous_buy_in_parts" /\ AllSome => PartsDiff = 0

\* C11 (amended): whenever the three calls return a value and the raw product
\* of a * b / c and the difference of the exponentials of the whole purchase
\* fits the InnerUint, the two costs differ by at most one raw unit.
C11_ContinuousAdditiveWithinOne ==
    op = "continuous_buy_in_parts" /\ AllSome
        /\ IsSome(InnerUint_checked_mul(AbOverC, ExpDiff(args[1], args[2] + args[3]))) =>
        Abs(PartsDiff) <= 1

\* both parts cost something and the two costs differ
C11_Witness ==
    /\ op = "continuous_buy_in_parts" /\ AllSome
    /\ IsSome(InnerUint_checked_mul(AbOverC, ExpDiff(args[1], args[2] + args[3])))
    /\ out[2][1] > 0 /\ out[3][1] > 0
    /\ Abs(PartsDiff) = 1

\* C2: for every index i of the cumulative table, tokens_to_value(0,
\* i * STEP_SIZE) returns a value and that value is CUMULATIVE[i] exactly.
C2_CumulativeConsistency ==
    op = "tokens_to_value" /\ args[1] = 0 /\ args[2] % step_size = 0
        /\ MathStep(args[2]) \in DOMAIN DISCRETE_CUMULATIVE_VALUE_TABLE =>
        out[1] = Some(DISCRETE_CUMULATIVE_VALUE_TABLE[MathStep(args[2])])

\* the last index of the table
C2_Witness ==
    /\ op = "tokens_to_value" /\ args[1] = 0 /\ args[2] = (TableLen - 1) * step_size
    /\ out[1] = Some(DISCRETE_CUMULATIVE_VALUE_TABLE[TableLen - 1])
    /\ tbl > 1

\* the tolerance of the round-trip tests, in raw units
TOLERANCE == 100

RoundTripWithinTolerance ==
    IsSome(out[2]) /\ Abs(out[2][1] - args[2]) <= TOLERANCE

\* C3 (as claimed): whenever tokens_to_value(s, D) returns v, value_to_tokens(s, v)
\* returns t with |t - D| <= 100 raw units, for every s inside the table, the
\* last step included.
C3_RoundTrip ==
    op = "roundtrip" => RoundTripWithinTolerance

\* C3 (amended): for every s before the last step of the table and every
\* purchase that ends inside the table, value_to_tokens returns t with
\* |t - D| <= 100 raw units when s and D are whole numbers of tokens, and
\* with |t - D| < 150 raw units otherwise.
C3_RoundTripBeforeLastStep ==
    op = "roundtrip" /\ MathStep(args[1]) < TableLen - 1 /\ InTable(args[1], args[2]) =>
        /\ IsSome(out[2])
        /\ Abs(out[2][1] - args[2]) < TOLERANCE + TOLERANCE \div 2
        /\ Whole(args[1]) /\ Whole(args[2]) => Abs(out[2][1] - args[2]) <= TOLERANCE

\* a whole purchase from a whole supply inside a step into the last step,
\* which does not come back exactly
C3_Witness ==
    /\ op = "roundtrip"
    /\ MathStep(args[1]) < TableLen - 1 /\ InTable(args[1], args[2])
    /\ Whole(args[1]) /\ Whole(args[2]) /\ args[1] % step_size # 0
    /\ MathStep(args[1] + args[2]) = TableLen - 1
    /\ IsSome(out[2]) /\ out[2][1] # args[2]

Min(a, b) == IF a < b THEN a ELSE b

Max(a, b) == IF a > b THEN a ELSE b

\* the tokens of [s, e) that fall in step k
TokensInStep(k, s, e) == Max(0, Min(e, (k + 1) * step_size) - Max(s, k * step_size))

\* the step-by-step reference: every touched step charged at its own price
RECURSIVE StepByStep(_, _, _)
StepByStep(k, s, e) ==
    IF k >= TableLen THEN 0
    ELSE (IF TokensInStep(k, s, e) > 0
          THEN checked_mul(TokensInStep(k, s, e), PriceOf(tbl, k))[1]
          ELSE 0) + StepByStep(k + 1, s, e)

\* C4: for a purchase of D > 0 tokens that ends inside the table,
\* tokens_to_value(s0, D) is the sum, over the steps the purchase touches, of
\* mul(tokens in the step, PRICE[step]).
C4_ThreePieceSplit ==
    op = "tokens_to_value" /\ args[2] > 0 /\ InTable(args[1], args[2]) =>
        out[1] = Some(StepByStep(0, args[1], args[1] + args[2]))

\* fractional at both ends, with a complete step in between
C4_Witness ==
    /\ op = "tokens_to_value" /\ tbl > 1 /\ IsSome(out[1])
    /\ ~Whole(args[1]) /\ ~Whole(args[1] + args[2])
    /\ MathStep(args[1] + args[2]) >= MathStep(args[1]) + 2
    /\ InTable(args[1], args[2])

\* C5 (the claim): spot_price_at_supply(s) is None for every representable s
\* whose step index is at or past the table length.
C5_BeyondTableIsNone ==
    op = "spot_price_at_supply" /\ MathStep(args[1]) >= TableLen => out[1] = None

\* C6 (the claim): tokens_to_value(s0, D), D > 0, is None whenever the end
\* step of the purchase is at or past the table length.
C6_PastTableIsNone ==
    op = "tokens_to_value" /\ args[2] > 0 /\ ~InTable(args[1], args[2]) => out[1] = None

\* C7: tokens_to_value(s, 0) and value_to_tokens(s, 0) are exactly zero for
\* every supply s.
C7_ZeroBoundary ==
    op \in {"tokens_to_value", "value_to_tokens"} /\ args[2] = 0 => out[1] = Some(0)

\* zero tokens at a supply past the table
C7_Witness ==
    /\ op = "tokens_to_value" /\ args[2] = 0 /\ args[1] = MaxRaw
    /\ out[1] = Some(0)

\* C8: the spot price of every supply s inside the table is the price of the
\* step s lies in; one raw unit below a boundary is still the lower step.
C8_BoundaryExactness ==
    op = "spot_price_at_supply" /\ MathStep(args[1]) < TableLen =>
        out[1] = Some(DISCRETE_PRICING_TABLE[MathStep(args[1])])

\* one raw unit below a boundary where the price changes
C8_Witness ==
    /\ op = "spot_price_at_supply" /\ tbl > 1
    /\ args[1] = 2 * step_size - 1
    /\ out[1] = Some(DISCRETE_PRICING_TABLE[1])

\* value_to_tokens ran its loop to the end
Searched == (op = "search" /\ ~(low < high)) \/ (op = "value_to_tokens" /\ low > 0)

\* the cost to complete the step that s lies in
CostToComplete(s) ==
    checked_mul((MathStep(s) + 1) * step_size - s, PriceOf(tbl, MathStep(s)))[1]

\* C9: when value_to_tokens searches, target_cumulative is CUMULATIVE[start_step
\* + 1] + (v - cost to complete the start step) and the search ends at the
\* largest index in [start_step + 1, len - 1] whose cumulative value is <= it.
C9_BinarySearchResult ==
    Searched =>
        LET first == MathStep(args[1]) + 1
            target == CumulativeOf(tbl, first) + (args[2] - CostToComplete(args[1]))
        IN  /\ locals.target_cumulative_raw = target
            /\ low \in first .. TableLen - 1
            /\ CumulativeOf(tbl, low) <= target
            /\ \A i \in first .. TableLen - 1 : CumulativeOf(tbl, i) <= target => i <= low

\* the search ran from the first step and stopped on an inner index whose
\* cumulative value is the target itself
C9_Witness ==
    /\ op = "value_to_tokens" /\ low > 0
    /\ MathStep(args[1]) + 1 < low /\ low < TableLen - 1
    /\ locals.target_cumulative_raw = CumulativeOf(tbl, low)

\* C10: value_to_tokens(s0, v), v > 0, is None for every s0 whose step is the
\* last step of the table or past it; the loop is never entered.
C10_LastStepIsNone ==
    op \in {"value_to_tokens", "search"} /\ MathStep(args[1]) >= TableLen - 1 /\ args[2] > 0 =>
        op = "value_to_tokens" /\ out[1] = None

\* a supply in the last step of the table
C10_Witness ==
    /\ op = "value_to_tokens" /\ args[2] > 0
    /\ MathStep(args[1]) = TableLen - 1
    /\ out[1] = None


---------------------------------------------------------------------------
(* Properties of the pool instructions.  In a state where op names an      *)
(* instruction, args holds its inputs (the signer first), out its result,  *)
(* before the accounts as the instruction found them and pool the accounts *)
(* as it left them.                                                        *)

BuySucceeded == op = "buy_tokens" /\ IsSome(out[1])

SellSucceeded == op = "sell_tokens" /\ IsSome(out[1])

\* the circulating supply in quarks
Circulating(p) == MAX_TOKEN_SUPPLY * QUARKS_PER_TOKEN - p.target_vault

\* C12 (the claim): a successful buy_tokens keeps buyer base + base vault
\* and buyer target + target vault, strictly lowers the target vault,
\* strictly raises the base vault and leaves fees_accumulated alone
C12_BuyConservation ==
    BuySucceeded =>
        /\ pool.base[args[1]] + pool.base_vault
               = before.base[args[1]] + before.base_vault
        /\ pool.target[args[1]] + pool.target_vault
               = before.target[args[1]] + before.target_vault
        /\ pool.target_vault < before.target_vault
        /\ pool.base_vault > before.base_vault
        /\ pool.fees_accumulated = before.fees_accumulated


\* the quarks a sell takes from the seller
TokensSold == IF args[2] = 0 THEN before.target[args[1]] ELSE args[2]

\* C13 (the claim): a successful sell_tokens on a pool with sell_fee > 0
\* keeps seller base + base vault (the fee stays in the base vault), raises
\* fees_accumulated, which ends positive, and raises the target vault by
\* the tokens sold
C13_SellFeeAccounting ==
    (SellSucceeded /\ before.sell_fee > 0) =>
        /\ pool.base[args[1]] + pool.base_vault
               = before.base[args[1]] + before.base_vault
        /\ pool.fees_accumulated > before.fees_accumulated
        /\ pool.fees_accumulated > 0
        /\ pool.target_vault = before.target_vault + TokensSold


AllQuarks == MAX_TOKEN_SUPPLY * QUARKS_PER_TOKEN

\* a pool without sell fee whose target vault a buy has emptied
CycleStarted(p) == p.sell_fee = 0 /\ p.sold_out

\* every token is back in the target vault, nothing is left in the base
\* vault and the first user holds what it started with
FreshAgain(p) ==
    p.target_vault = AllQuarks => (p.base_vault = 0 /\ p.base[1] = UserBase)

\* the first user, the only holder, sells some or all of its tokens and
\* accepts any payout
SellOfTheCycle ==
    /\ op = "sell_tokens"
    /\ CycleStarted(before)
    /\ args[1] = 1
    /\ args[3] = 0
    /\ before.target[2] = 0
    /\ TokensSold > 0
    /\ TokensSold <= before.target[1]

\* C15 (the claim): without sell fee, once buys have emptied the target
\* vault, every sell of any split that returns the tokens succeeds, and
\* with every token returned the pool is as it was created and the user
\* holds its original base balance
C15_FullCycle ==
    /\ CycleStarted(pool) => FreshAgain(pool)
    /\ SellOfTheCycle => IsSome(out[1])

\* C15 (amended): without sell fee, once buys have emptied the target
\* vault, whenever every token is back in the target vault the base vault
\* is empty and the user holds its original base balance
C15_FullCycleFinalState == CycleStarted(pool) => FreshAgain(pool)

\* the last of several sells returns the last tokens of a sold-out pool
C15_Witness ==
    /\ SellOfTheCycle
    /\ IsSome(out[1])
    /\ args[2] # 0
    /\ before.target_vault > 0
    /\ before.base_vault > 0
    /\ pool.target_vault = AllQuarks
    /\ pool.base_vault = 0
    /\ pool.base[1] = UserBase


MAX_LOCKED_DIFFERENCE == 10

\* from_numeric(tokens_to_value(0, circulating supply)): what the curve
\* says the base vault holds, in raw base units
OnCurve(p) ==
    Try(to_numeric(Circulating(p), TOKEN_DECIMALS), LAMBDA supply :
    Try(tokens_to_value(0, supply), LAMBDA value :
    from_numeric(value, BASE_DECIMALS)))

Deviation(p) == Abs(p.base_vault - OnCurve(p)[1])

\* the price of the step the circulating supply lies in
PriceAt(p) ==
    PriceOf(tbl, (Circulating(p) \div QUARKS_PER_TOKEN) \div DISCRETE_PRICING_STEP_SIZE)

---------------------------------------------------------------------------
(* Properties of the arithmetic, against the integers *)

Fits(n) == n <= INNER_UINT_MAX

\* a * b fits an InnerUint (the product itself may be too large to write)
ProductFits(a, b) == a = 0 \/ b = 0 \/ a <= INNER_UINT_MAX \div b

\* (larger / ONE) * smaller, if it fits
MulFallback(a, b) ==
    IF ProductFits(Max(a, b) \div ONE, Min(a, b))
    THEN Some((Max(a, b) \div ONE) * Min(a, b)) ELSE None

\* C17 (the claim): checked_mul(a, b) is floor((a * b + ONE/2) / ONE) when
\* a * b fits; when it does not, (max(a, b) / ONE) * min(a, b) if that fits
\* and None otherwise; never a wrapped value
C17_CheckedMul ==
    op = "checked_mul" =>
        out[1] = IF ProductFits(args[1], args[2])
                 THEN Some((args[1] * args[2]) \div ONE
                           + (IF (args[1] * args[2]) % ONE >= ONE \div 2 THEN 1 ELSE 0))
                 ELSE MulFallback(args[1], args[2])

\* C17 (amended): as claimed when a * b + ONE/2 fits; None when a * b fits
\* and a * b + ONE/2 does not
C17_CheckedMulRoundingFits ==
    op = "checked_mul" =>
        out[1] = IF ~ProductFits(args[1], args[2]) THEN MulFallback(args[1], args[2])
                 ELSE IF Fits(args[1] * args[2] + ONE \div 2)
                 THEN Some((args[1] * args[2] + ONE \div 2) \div ONE)
                 ELSE None

\* a product in the upper half of the range, rounded up
C17_Witness ==
    /\ op = "checked_mul"
    /\ args[1] > ONE
    /\ args[2] > ONE
    /\ ProductFits(args[1], args[2])
    /\ (args[1] * args[2]) % ONE >= ONE \div 2
    /\ args[1] * args[2] > INNER_UINT_MAX \div 2
    /\ IsSome(out[1])

\* C18 (the claim): checked_div(a, b) is None when b = 0; for b # 0 it
\* returns a value whenever a * ONE fits, and when a * ONE does not fit it
\* returns ((a + ONE/2) / b) * ONE or None, never a wrapped value
C18_CheckedDiv ==
    op = "checked_div" =>
        /\ args[2] = 0 => out[1] = None
        /\ (args[2] # 0 /\ ProductFits(args[1], ONE)) => IsSome(out[1])
        /\ (args[2] # 0 /\ ~ProductFits(args[1], ONE) /\ IsSome(out[1])) =>
               /\ ProductFits((args[1] + ONE \div 2) \div args[2], ONE)
               /\ out[1][1] = ((args[1] + ONE \div 2) \div args[2]) * ONE

\* the value of the fallback of checked_div
DivFallback(a, b) ==
    IF Fits(a + ONE \div 2) /\ ProductFits((a + ONE \div 2) \div b, ONE)
    THEN Some(((a + ONE \div 2) \div b) * ONE) ELSE None

\* C18 (amended): checked_div(a, b) is None when b = 0; for b # 0 it is
\* (a * ONE + ONE/2) / b when a * ONE + ONE/2 fits, None when a * ONE fits
\* and a * ONE + ONE/2 does not, and when a * ONE does not fit it is
\* ((a + ONE/2) / b) * ONE if that fits and None otherwise
C18_CheckedDivRoundingFits ==
    op = "checked_div" =>
        out[1] = IF args[2] = 0 THEN None
                 ELSE IF ~ProductFits(args[1], ONE) THEN DivFallback(args[1], args[2])
                 ELSE IF Fits(args[1] * ONE + ONE \div 2)
                 THEN Some((args[1] * ONE + ONE \div 2) \div args[2])
                 ELSE None

\* the fallback returns a value
C18_Witness ==
    /\ op = "checked_div"
    /\ ~ProductFits(args[1], ONE)
    /\ args[2] > 1
    /\ IsSome(out[1])
    /\ out[1][1] > 0

\* C19 (the claim): on the full-precision path checked_div(a, b) is within
\* half a raw unit of a * ONE / b, and checked_mul(a, b) within half a raw
\* unit of a * b / ONE
C19_RoundToNearest ==
    /\ (op = "checked_div" /\ args[2] # 0 /\ ProductFits(args[1], ONE)
            /\ Fits(args[1] * ONE + ONE \div 2)) =>
           /\ IsSome(out[1])
           /\ 2 * Abs(out[1][1] * args[2] - args[1] * ONE) <= args[2]
    /\ (op = "checked_mul" /\ ProductFits(args[1], args[2])
            /\ Fits(args[1] * args[2] + ONE \div 2)) =>
           /\ IsSome(out[1])
           /\ 2 * Abs(out[1][1] * ONE - args[1] * args[2]) <= ONE

\* C20: where they return a value, floor(x) is the largest multiple of ONE
\* that is <= x and ceiling(x) the smallest that is >= x; applied twice
\* they return what they return applied once; a whole number is returned
\* unchanged
C20_FloorCeiling ==
    op = "floor_ceiling" =>
        /\ IsSome(out[1]) =>
               /\ out[1][1] % ONE = 0
               /\ out[1][1] <= args[1]
               /\ args[1] < out[1][1] + ONE
               /\ args[1] % ONE = 0 => out[1][1] = args[1]
        /\ IsSome(out[2]) =>
               /\ out[2][1] % ONE = 0
               /\ out[2][1] >= args[1]
               /\ out[2][1] < args[1] + ONE
               /\ args[1] % ONE = 0 => out[2][1] = args[1]
        /\ IsSome(out[3]) => out[3] = out[1]
        /\ IsSome(out[4]) => out[4] = out[2]

\* a number between two whole numbers, rounded both ways, once and twice
C20_Witness ==
    /\ op = "floor_ceiling"
    /\ args[1] > ONE
    /\ args[1] % ONE # 0
    /\ IsSome(out[1])
    /\ IsSome(out[2])
    /\ out[2][1] = out[1][1] + ONE
    /\ out[3] = out[1]
    /\ out[4] = out[2]


---------------------------------------------------------------------------
(* Properties of the conversions between amounts and numbers *)

\* C21: for every u64 amount and every number of decimal places up to the
\* limit, to_numeric returns a number and from_numeric of that number
\* returns the amount exactly
C21_ConversionRoundTrip ==
    (op = "convert" /\ args[2] <= MAX_DECIMAL_PLACES) =>
        /\ IsSome(out[1])
        /\ out[2] = Some(args[1])

\* the largest amount with the most decimal places: a number with a
\* fractional part, which comes back exactly
C21_Witness ==
    /\ op = "convert"
    /\ args = <<U64_MAX, MAX_DECIMAL_PLACES>>
    /\ IsSome(out[1])
    /\ out[1][1] % ONE # 0
    /\ out[2] = Some(U64_MAX)

---------------------------------------------------------------------------
(* Properties of exp *)

\* the left shift that ends exp(x) moves bits of y past the width of the
\* InnerUint: k > 0 and y * 2^k does not fit
ExpShiftOverflows(x) ==
    /\ IsSome(exp_reduce(x))
    /\ IsSome(exp_primary(exp_reduce(x)[1]))
    /\ LET k == exp_reduce(x)[1].k
           y == exp_primary(exp_reduce(x)[1])[1]
           bits == to_imprecise(k.value)[1]
       IN  /\ k.value # 0
           /\ ~k.is_negative
           /\ y.value # 0
           /\ \/ bits >= INNER_UINT_BITS
              \/ y.value > INNER_UINT_MAX \div 2 ^ bits

\* C23 (the claim): exp(x) is None whenever the final scaling by 2^k would
\* push bits past the width of the InnerUint or k exceeds the shiftable
\* range; it never panics and never returns a value that lost high bits
C23_ExpOverflowIsNone ==
    op = "exp" =>
        /\ out[1] # Panic
        /\ ExpShiftOverflows(args[1]) => out[1] = None

---------------------------------------------------------------------------
(* Properties of the loop of value_to_tokens *)

\* every iteration leaves an interval inside the one it found, and a
\* strictly shorter one
IntervalShrinks ==
    [][(op = "search" /\ op' = "search") =>
           /\ low <= low'
           /\ low' <= high'
           /\ high' <= high
           /\ high' - low' < high - low]_vars

\* a call that enters the loop leaves it and returns
SearchTerminates == (op = "search") ~> (op = "value_to_tokens")

\* a call that has returned has returned a value or None
ReturnsValueOrNone == [](op = "value_to_tokens" => out[1] # Panic)

\* C24 (the claim): for every supply and every target value the interval
\* [low, high] strictly shrinks on every iteration of the loop, the loop
\* terminates, and the call returns either a value or None
C24_SearchTerminates == IntervalShrinks /\ SearchTerminates /\ ReturnsValueOrNone

---------------------------------------------------------------------------
(* Properties of a buy, from the accounts as the instruction found them.   *)
(* The quantities of buy_common are written out over the integers.         *)

\* the raw number of an amount of a mint with the given decimals
Numeric(amount, decimal_places) == (amount * ONE) \div 10 ^ decimal_places

\* what the buyer asks to pay, in raw base units
RequestedIn == IF args[2] = 0 THEN before.base[args[1]] ELSE args[2]

\* the value the base vault would hold after the whole payment, and capped
UncappedNewValue ==
    Numeric(before.base_vault, BASE_DECIMALS) + Numeric(RequestedIn, BASE_DECIMALS)

CappedNewValue == Min(UncappedNewValue, MAX_CUMULATIVE_VALUE)

\* the supply the curve gives for the capped value, and the supply now
CurveSupply == value_to_tokens(0, CappedNewValue)

SupplyNow == Numeric(Circulating(before), TOKEN_DECIMALS)

\* the quarks that from_numeric makes of a number of tokens: the nearest
QuarksOf(tokens) == (tokens * QUARKS_PER_TOKEN + ONE \div 2) \div ONE

\* the quarks the buy computes, where the curve gives a supply not below
\* the supply now
TokensBoughtRaw ==
    QuarksOf(Min(CurveSupply[1] - SupplyNow, Numeric(before.target_vault, TOKEN_DECIMALS)))

\* the curve returns None, or a supply below the circulating supply
BuyCurveFails == CurveSupply = None \/ (IsSome(CurveSupply) /\ CurveSupply[1] < SupplyNow)

BuyRejected ==
    \/ BuyCurveFails
    \/ TokensBoughtRaw = 0
    \/ TokensBoughtRaw < args[3]

\* C25: a buy fails and leaves every token account and the pool as they
\* were whenever the computed tokens_bought_raw is 0 or less than
\* min_amount_out, the curve returns None, or the supply the curve gives
\* for the value of the base vault is below the circulating supply
C25_BuyRejection ==
    (op = "buy_tokens" /\ BuyRejected) =>
        /\ out[1] = None
        /\ pool = before

\* a buyer that could pay and would get tokens, fewer than min_amount_out
C25_Witness ==
    /\ op = "buy_tokens"
    /\ ~BuyCurveFails
    /\ TokensBoughtRaw > 0
    /\ TokensBoughtRaw < args[3]
    /\ RequestedIn > 0
    /\ RequestedIn <= before.base[args[1]]
    /\ before.base_vault > 0
    /\ out[1] = None
    /\ pool = before

\* the raw base units that from_numeric makes of a value: the nearest
RawBaseOf(value) == (value * 10 ^ BASE_DECIMALS + ONE \div 2) \div ONE

\* what a buy took from the buyer, in raw base units
Charged == before.base[args[1]] - pool.base[args[1]]

\* min(requested amount, MAX_CUMULATIVE_VALUE - current base vault value)
CappedInAmount ==
    Min(Numeric(RequestedIn, BASE_DECIMALS),
        MAX_CUMULATIVE_VALUE - Numeric(before.base_vault, BASE_DECIMALS))

\* C26 (the claim): a successful buy charges min(requested amount,
\* MAX_CUMULATIVE_VALUE - current base vault value), the requested amount
\* being in_amount or, for in_amount = 0, the buyer's whole base balance;
\* the value of the base vault never exceeds MAX_CUMULATIVE_VALUE and never
\* more than the requested amount is taken from the buyer
C26_BuyValueCap ==
    /\ Numeric(pool.base_vault, BASE_DECIMALS) <= MAX_CUMULATIVE_VALUE
    /\ BuySucceeded =>
           /\ Numeric(Charged, BASE_DECIMALS) = CappedInAmount
           /\ Charged <= RequestedIn

\* C26 (amended): a successful buy charges min(requested amount,
\* MAX_CUMULATIVE_VALUE - current base vault value) rounded to the nearest
\* raw base unit; the base vault never holds more than MAX_CUMULATIVE_VALUE
\* rounded to the nearest raw base unit and never more than the requested
\* amount is taken from the buyer
C26_BuyValueCapRounded ==
    /\ pool.base_vault <= RawBaseOf(MAX_CUMULATIVE_VALUE)
    /\ BuySucceeded =>
           /\ Charged = RawBaseOf(CappedInAmount)
           /\ Charged <= RequestedIn

\* a buy that asks for more than the cap leaves: it is charged less than
\* it asked, and the base vault ends above MAX_CUMULATIVE_VALUE
C26_Witness ==
    /\ BuySucceeded
    /\ UncappedNewValue > MAX_CUMULATIVE_VALUE
    /\ before.base_vault > 0
    /\ Charged > 0
    /\ Charged < RequestedIn
    /\ pool.base_vault = RawBaseOf(MAX_CUMULATIVE_VALUE)
    /\ Numeric(pool.base_vault, BASE_DECIMALS) > MAX_CUMULATIVE_VALUE

\* the quarks a buy delivered to the buyer
Delivered == pool.target[args[1]] - before.target[args[1]]

---------------------------------------------------------------------------
(* Properties of burn_fees without fees *)

BurnSucceeded == op = "burn_fees" /\ IsSome(out[1])

\* burn_fees on a pool without accumulated fees fails and changes nothing
BurnWithoutFeesFails ==
    (op = "burn_fees" /\ before.fees_accumulated = 0) =>
        /\ out[1] = None
        /\ pool = before

\* a burn that succeeded has left no accumulated fees
BurnLeavesNoFees == BurnSucceeded => pool.fees_accumulated = 0

---------------------------------------------------------------------------
(* Properties of a sell *)

\* what a sell took out of the base vault, in raw base units: the fee and
\* the payout
PaidOut == before.base_vault - pool.base_vault

\* tokens_to_value(0, new_supply): what the curve says the tokens that
\* still circulate after the sell are worth
NewValue == tokens_to_value(0, Numeric(Circulating(pool), TOKEN_DECIMALS))

\* the value the sell releases: base vault value - NewValue
TotalSellValue == Numeric(before.base_vault, BASE_DECIMALS) - NewValue[1]

\* C29 (the claim): in every successful sell fee_amount_raw +
\* sell_value_after_fee_raw is at most total_sell_value = base vault value
\* - tokens_to_value(0, new_supply), and after the sell the base vault
\* holds at least from_numeric(tokens_to_value(0, new_supply))
C29_SellPayoutBounded ==
    SellSucceeded =>
        /\ IsSome(NewValue)
        /\ Numeric(PaidOut, BASE_DECIMALS) <= TotalSellValue
        /\ pool.base_vault >= RawBaseOf(NewValue[1])

---------------------------------------------------------------------------
(* Properties of value_to_tokens at the end of the table *)

\* the supply the table can hold: every step of the price table full
TableCapacity == TableLen * step_size

\* what the tokens from supply s to the capacity of the table cost
RemainingCost(s) ==
    CostToComplete(s) + CumulativeOf(tbl, TableLen) - CumulativeOf(tbl, MathStep(s) + 1)

\* C30 (the claim): whenever value_to_tokens(s0, v) returns a token amount
\* t, s0 + t does not exceed the capacity of the table and the tokens
\* bought in the final partial step are fewer than STEP_SIZE; a value
\* larger than the cost of all remaining table steps yields no token amount
C30_NeverPastTable ==
    (op = "value_to_tokens" /\ args[2] > 0) =>
        /\ IsSome(out[1]) =>
               /\ args[1] + out[1][1] <= TableCapacity
               /\ low > 0 => args[1] + out[1][1] - low * step_size < step_size
        /\ (MathStep(args[1]) < TableLen /\ args[2] > RemainingCost(args[1])) =>
               ~IsSome(out[1])

====
